---- MODULE Spec2Model ----
(***************************************************************************)
(* A model of bake() of src/src/bake.ts: the recursive inlining of linked  *)
(* documents, with its hidden-region filter, its offset bookkeeping, its   *)
(* inline/block classification and its ancestor-set cycle rule.            *)
(*                                                                         *)
(* Texts are sequences of one-character strings, indexed from 1; every     *)
(* offset of the program is 0-based and is kept 0-based here.              *)
(***************************************************************************)
EXTENDS Integers, Sequences, FiniteSets, TLC

\* ------------------------------------------------------------------------
\* JavaScript string primitives used by bake()
\* ------------------------------------------------------------------------

Min(a, b) == IF a < b THEN a ELSE b

Max(a, b) == IF a < b THEN b ELSE a

\* String.prototype.substring clamps each index into [0, length] ...
Clamp(x, n) == IF x < 0 THEN 0 ELSE IF x > n THEN n ELSE x

\* ... and swaps them when the first exceeds the second.
Substring(s, a, b) ==
  LET x == Clamp(a, Len(s))
      y == Clamp(b, Len(s))
  IN  SubSeq(s, Min(x, y) + 1, Max(x, y))

SubstringFrom(s, a) == Substring(s, a, Len(s))

\* pat occurs in s at 0-based index i
MatchAt(s, pat, i) ==
  /\ i >= 0
  /\ i + Len(pat) <= Len(s)
  /\ SubSeq(s, i + 1, i + Len(pat)) = pat

\* RegExp.prototype.exec of a literal global pattern with lastIndex = from:
\* the index of the first occurrence at or after from, or -1 (null).
RECURSIVE ExecLiteral(_, _, _)
ExecLiteral(s, pat, from) ==
  IF from + Len(pat) > Len(s) THEN -1
  ELSE IF MatchAt(s, pat, from) THEN from
  ELSE ExecLiteral(s, pat, from + 1)

\* the number of characters of cs that end s
RECURSIVE TrailingRun(_, _)
TrailingRun(s, cs) ==
  IF s = <<>> \/ s[Len(s)] \notin cs THEN 0
  ELSE 1 + TrailingRun(SubSeq(s, 1, Len(s) - 1), cs)

\* the number of characters of cs that start s
RECURSIVE LeadingRun(_, _)
LeadingRun(s, cs) ==
  IF s = <<>> \/ s[1] \notin cs THEN 0
  ELSE 1 + LeadingRun(SubSeq(s, 2, Len(s)), cs)

RECURSIVE Flatten(_)
Flatten(ss) == IF ss = <<>> THEN <<>> ELSE Head(ss) \o Flatten(Tail(ss))

\* ------------------------------------------------------------------------
\* The three classifier expressions
\* ------------------------------------------------------------------------

Digits == {"0", "1", "2", "3", "4", "5", "6", "7", "8", "9"}

\* /(?:^|\n) *$/ : only spaces between the last line break (or the start of
\* the text) and the end of the text
lineStartRE(before) ==
  LET p == Len(before) - TrailingRun(before, {" "})
  IN  p = 0 \/ before[p] = "\n"

\* /^ *(?:\r?\n|$)/ : only spaces up to the next line break or the end
lineEndRE(after) ==
  LET rest == SubSeq(after, LeadingRun(after, {" "}) + 1, Len(after))
  IN  \/ rest = <<>>
      \/ rest[1] = "\n"
      \/ (Len(rest) >= 2 /\ rest[1] = "\r" /\ rest[2] = "\n")

\* the text after the last line break of s
RECURSIVE LastLine(_)
LastLine(s) ==
  IF s = <<>> \/ s[Len(s)] = "\n" THEN <<>>
  ELSE Append(LastLine(SubSeq(s, 1, Len(s) - 1)), s[Len(s)])

\* /(?:^|\n)([ \t]*)(?:[-*+]|[0-9]+[.)]) +$/ matched against before: the last
\* line is blanks (captured), one list marker, one or more spaces. The
\* result is the match (matched, and group 1 as indent) or null (not matched).
listLineStartRE(before) ==
  LET line   == LastLine(before)
      sp     == TrailingRun(line, {" "})
      body   == SubSeq(line, 1, Len(line) - sp)
      m      == Len(body)
      nd     == IF m >= 1 THEN TrailingRun(SubSeq(body, 1, m - 1), Digits) ELSE 0
      bullet == m >= 1 /\ body[m] \in {"-", "*", "+"}
      number == m >= 1 /\ body[m] \in {".", ")"} /\ nd >= 1
      prefix == IF bullet THEN SubSeq(body, 1, m - 1)
                ELSE IF number THEN SubSeq(body, 1, m - 1 - nd)
                ELSE <<>>
      blank  == LeadingRun(prefix, {" ", "\t"}) = Len(prefix)
  IN  IF sp >= 1 /\ (bullet \/ number) /\ blank
      THEN [matched |-> TRUE, indent |-> prefix]
      ELSE [matched |-> FALSE, indent |-> <<>>]

\* ------------------------------------------------------------------------
\* Hidden regions (bake.ts 34-56)
\* ------------------------------------------------------------------------

HiddenStartMarker == <<"%", "%", "h", "i", "d", "d", "e", "n", "%", "%">>

HiddenEndMarker == <<"%", "%", "/", "h", "i", "d", "d", "e", "n", "%", "%">>

\* "hiddenEndRE.lastIndex = start + 10; // Length of %%hidden%%"
HiddenStartSkip == 10

\* "end: endMatch.index + 12 // Length of %%/hidden%%"
HiddenEndSkip == 12

\* The while loop of lines 42-49. hiddenStartRE is global: after a match at
\* start its lastIndex is start + Len(HiddenStartMarker), and the next exec
\* resumes there, whether or not an end marker was found.
RECURSIVE ScanHidden(_, _, _)
ScanHidden(text, lastIndex, found) ==
  LET start == ExecLiteral(text, HiddenStartMarker, lastIndex)
      endAt == ExecLiteral(text, HiddenEndMarker, start + HiddenStartSkip)
  IN  IF start = -1 THEN found
      ELSE ScanHidden(text, start + Len(HiddenStartMarker),
                      IF endAt # -1
                      THEN Append(found,
                                  [start |-> start, end |-> endAt + HiddenEndSkip])
                      ELSE found)

FindHiddenRegions(text) == ScanHidden(text, 0, <<>>)

\* The for loop of lines 52-55: the regions are cut out of the running text
\* from the last to the first.
RECURSIVE RemoveHidden(_, _, _)
RemoveHidden(text, regions, i) ==
  IF i = 0 THEN text
  ELSE RemoveHidden(Substring(text, 0, regions[i].start)
                      \o SubstringFrom(text, regions[i].end),
                    regions, i - 1)

\* lines 35-56: the regions recorded and the text left
HiddenFilter(text, bakeHidden) ==
  IF bakeHidden THEN [text |-> text, hiddenRegions |-> <<>>]
  ELSE LET regions == FindHiddenRegions(text)
       IN  [text |-> RemoveHidden(text, regions, Len(regions)),
            hiddenRegions |-> regions]

\* ------------------------------------------------------------------------
\* The vault: files, link resolution and the metadata cache (the obsidian
\* API that bake() consumes)
\* ------------------------------------------------------------------------

\* A TFile is named by one letter; A to D are markdown documents, I is an
\* image. "null" stands for JavaScript's null.
Docs == {"A", "B", "C", "D"}

Asset == "I"

AssetPath == <<"i", " ", "j", ".", "p", "n", "g">>

\* TFile.extension (bake.ts 128)
Extension(f) == IF f \in Docs THEN "md" ELSE "png"

\* TFile.path of the image (bake.ts 144)
FilePath(f) == IF f = Asset THEN AssetPath ELSE <<f, ".", "m", "d">>

\* metadataCache.getFirstLinkpathDest(path, file.path) (bake.ts 119): the
\* file a link path names, or null
getFirstLinkpathDest(path) ==
  IF Len(path) = 1 /\ path[1] \in Docs THEN path[1]
  ELSE IF path = AssetPath THEN Asset
  ELSE "null"

\* parseLinktext(target.link) (bake.ts 118): the path up to the first "#"
\* and the subpath from it on
parseLinktext(link) ==
  LET hashes == {i \in 1..Len(link) : link[i] = "#"}
      cut    == IF hashes = {} THEN Len(link) + 1
                ELSE CHOOSE i \in hashes : \A j \in hashes : i <= j
  IN  [path |-> SubSeq(link, 1, cut - 1), subpath |-> SubSeq(link, cut, Len(link))]

\* adapter.getFullPath(linkedFile.path) (bake.ts 144): the vault's base
\* path joined with the file's path, in the host's notation
getFullPath(path, isWin) ==
  IF isWin THEN <<"C", ":", "\\", "v", "\\">> \o path
  ELSE <<"/", "v", "/">> \o path

\* The characters encodeURI (bake.ts 146) leaves as they are: the letters,
\* the digits, and the reserved and unreserved marks of a URI.
URIKept ==
  {"A", "B", "C", "D", "E", "F", "G", "H", "I", "J", "K", "L", "M",
   "N", "O", "P", "Q", "R", "S", "T", "U", "V", "W", "X", "Y", "Z",
   "a", "b", "c", "d", "e", "f", "g", "h", "i", "j", "k", "l", "m",
   "n", "o", "p", "q", "r", "s", "t", "u", "v", "w", "x", "y", "z",
   "0", "1", "2", "3", "4", "5", "6", "7", "8", "9",
   ";", "/", "?", ":", "@", "&", "=", "+", "$", ",", "-", "_", ".",
   "!", "~", "*", "'", "(", ")", "#"}

\* encodeURI (bake.ts 146) on one ASCII character a string of the model can
\* hold: a kept character stays, every other one becomes the percent sign
\* and the two hexadecimal digits of its code. The backquote (%60), which a
\* string of the module cannot hold, and the characters beyond ASCII, which
\* encodeURI writes as the bytes of their UTF-8 form, are outside the
\* alphabet of the model and the operator is not defined on them.
encodeURIChar(c) ==
  IF c \in URIKept THEN <<c>>
  ELSE
    CASE c = "\t" -> <<"%", "0", "9">>
      [] c = "\n" -> <<"%", "0", "A">>
      [] c = "\f" -> <<"%", "0", "C">>
      [] c = "\r" -> <<"%", "0", "D">>
      [] c = " " -> <<"%", "2", "0">>
      [] c = "\"" -> <<"%", "2", "2">>
      [] c = "%" -> <<"%", "2", "5">>
      [] c = "<" -> <<"%", "3", "C">>
      [] c = ">" -> <<"%", "3", "E">>
      [] c = "[" -> <<"%", "5", "B">>
      [] c = "\\" -> <<"%", "5", "C">>
      [] c = "]" -> <<"%", "5", "D">>
      [] c = "^" -> <<"%", "5", "E">>
      [] c = "{" -> <<"%", "7", "B">>
      [] c = "|" -> <<"%", "7", "C">>
      [] c = "}" -> <<"%", "7", "D">>

encodeURI(s) == Flatten([i \in 1..Len(s) |-> encodeURIChar(s[i])])

\* A document is written as a sequence of segments: plain text, a heading
\* line, or the markup of one reference. The text is their concatenation and
\* the metadata cache holds every reference with the offsets of its markup.
Lit(cs) == [kind |-> "lit", original |-> cs, link |-> <<>>, displayText |-> <<>>]

Heading(name) ==
  [kind |-> "heading", original |-> <<"#", " ">> \o name, link |-> name,
   displayText |-> <<>>]

\* the display text obsidian records for a wiki link without an alias:
\* the link text with " > " for "#"
DisplayOf(link) ==
  Flatten([i \in 1..Len(link) |->
             IF link[i] = "#" THEN <<" ", ">", " ">> ELSE <<link[i]>>])

\* [[link]] or [[link|alias]]
Wiki(link, alias) ==
  [kind |-> "link",
   original |-> <<"[", "[">> \o link
                  \o (IF alias = <<>> THEN <<>> ELSE <<"|">> \o alias)
                  \o <<"]", "]">>,
   link |-> link,
   displayText |-> IF alias = <<>> THEN DisplayOf(link) ELSE alias]

\* ![[link]]
Embed(link) ==
  [kind |-> "embed", original |-> <<"!", "[", "[">> \o link \o <<"]", "]">>,
   link |-> link, displayText |-> DisplayOf(link)]

\* [](link): a markdown link with an empty text has an empty display text
MdLink(link) ==
  [kind |-> "link", original |-> <<"[", "]", "(">> \o link \o <<")">>,
   link |-> link, displayText |-> <<>>]

NL == Lit(<<"\n">>)

\* the lines of a document joined by line breaks, as one segment sequence
RECURSIVE JoinLines(_)
JoinLines(lines) ==
  IF lines = <<>> THEN <<>>
  ELSE IF Len(lines) = 1 THEN lines[1]
  ELSE lines[1] \o <<NL>> \o JoinLines(Tail(lines))

DocText(segs) == Flatten([i \in 1..Len(segs) |-> segs[i].original])

\* the offset at which segment i starts
RECURSIVE SegOffset(_, _)
SegOffset(segs, i) ==
  IF i = 1 THEN 0 ELSE SegOffset(segs, i - 1) + Len(segs[i - 1].original)

\* the segments of one kind, in document order, as cache entries
RECURSIVE CacheEntries(_, _, _)
CacheEntries(segs, kind, i) ==
  IF i > Len(segs) THEN <<>>
  ELSE (IF segs[i].kind = kind
        THEN <<[link |-> segs[i].link,
                original |-> segs[i].original,
                displayText |-> segs[i].displayText,
                position |->
                  [start |-> [offset |-> SegOffset(segs, i)],
                   end |-> [offset |-> SegOffset(segs, i) + Len(segs[i].original)]]]>>
        ELSE <<>>)
       \o CacheEntries(segs, kind, i + 1)

\* metadataCache.getFileCache(file) (bake.ts 32) of a parsed document
CacheOf(segs) ==
  [exists |-> TRUE,
   links |-> CacheEntries(segs, "link", 1),
   embeds |-> CacheEntries(segs, "embed", 1),
   headings |-> CacheEntries(segs, "heading", 1)]

\* getFileCache of a file obsidian has not parsed: null
NoCache == [exists |-> FALSE, links |-> <<>>, embeds |-> <<>>, headings |-> <<>>]

\* resolveSubpath(cache, subpath) (bake.ts 62): "#name" resolves to the
\* section of the first heading of that name, which runs to the next heading
\* or, with end = -1 (null), to the end of the file; anything else to null.
resolveSubpath(cache, subpath) ==
  LET hs == cache.headings
      at == {i \in 1..Len(hs) : hs[i].link = Tail(subpath)}
      i  == CHOOSE k \in at : \A j \in at : k <= j
  IN  IF subpath = <<>> \/ subpath[1] # "#" \/ at = {}
      THEN [resolved |-> FALSE, start |-> 0, end |-> -1]
      ELSE [resolved |-> TRUE,
            start |-> hs[i].position.start.offset,
            end |-> IF i < Len(hs) THEN hs[i + 1].position.start.offset ELSE -1]

\* ------------------------------------------------------------------------
\* ./util: extractSubpath, sanitizeBakedContent, stripFirstBullet, applyIndent
\* ------------------------------------------------------------------------

\* extractSubpath(text, resolvedSubpath, cache) (bake.ts 64): the text of the
\* resolved range
extractSubpath(text, range) ==
  IF range.end = -1 THEN SubstringFrom(text, range.start)
  ELSE Substring(text, range.start, range.end)

\* the lines of s, without their line breaks
RECURSIVE SplitLines(_)
SplitLines(s) ==
  LET k == LeadingRun(s, {c \in {s[i] : i \in 1..Len(s)} : c # "\n"})
  IN  IF k = Len(s) THEN <<s>>
      ELSE <<SubSeq(s, 1, k)>> \o SplitLines(SubSeq(s, k + 2, Len(s)))

\* a trailing block identifier " ^id" of a line is dropped
StripBlockId(line) ==
  LET k  == TrailingRun(line, {c \in {line[i] : i \in 1..Len(line)} :
                                 c \notin {" ", "\n", "\r"}})
      sp == TrailingRun(SubSeq(line, 1, Len(line) - k), {" "})
  IN  IF k >= 2 /\ line[Len(line) - k + 1] = "^" /\ sp >= 1
      THEN SubSeq(line, 1, Len(line) - k - sp)
      ELSE line

RECURSIVE JoinWith(_, _)
JoinWith(lines, sep) ==
  IF Len(lines) = 1 THEN lines[1]
  ELSE lines[1] \o sep \o JoinWith(Tail(lines), sep)

\* sanitizeBakedContent(baked) (bake.ts 157): what must not be inlined
\* verbatim (the trailing block identifiers of its lines) is stripped
sanitizeBakedContent(text) ==
  LET lines == SplitLines(text)
  IN  JoinWith([i \in 1..Len(lines) |-> StripBlockId(lines[i])], <<"\n">>)

\* stripFirstBullet(baked) (bake.ts 161): the list marker that starts the
\* content is dropped
stripFirstBullet(text) ==
  LET ws   == LeadingRun(text, {" ", "\t"})
      rest == SubSeq(text, ws + 1, Len(text))
      nd   == LeadingRun(rest, Digits)
      mark == IF rest # <<>> /\ rest[1] \in {"-", "*", "+"} THEN 1
              ELSE IF nd >= 1 /\ Len(rest) > nd /\ rest[nd + 1] \in {".", ")"}
              THEN nd + 1 ELSE 0
      sp   == LeadingRun(SubSeq(rest, mark + 1, Len(rest)), {" "})
  IN  IF mark >= 1 /\ sp >= 1 THEN SubSeq(rest, mark + sp + 1, Len(rest))
      ELSE text

\* applyIndent(content, listMatch[1]) (bake.ts 161): every line after the
\* first is indented by the captured indent
applyIndent(text, indent) == JoinWith(SplitLines(text), <<"\n">> \o indent)

\* ------------------------------------------------------------------------
\* bake(): state
\* ------------------------------------------------------------------------

VARIABLES
  fileText,    \* vault.cachedRead: the text of each document
  fileCache,   \* metadataCache.getFileCache: the cache of each document
  unreadable,  \* the documents whose cachedRead rejects
  settings,    \* BakeSettings
  platform,    \* Platform.isWin, and whether the adapter has getFullPath
  stack,       \* the chain of bake() invocations, outermost first
  heap,        \* the Set<TFile> objects, by reference
  status,      \* of the top-level call: running, returned or failed
  result,      \* the text the top-level call returned
  readLog,     \* the documents cachedRead was called for, in order
  failDepth    \* the depth of the invocation whose read rejected, or 0

vars ==
  <<fileText, fileCache, unreadable, settings, platform, stack, heap, status,
    result, readLog, failDepth>>

\* the deepest chain of invocations the model follows
MaxDepth == 5

NoMatch == [matched |-> FALSE, indent |-> <<>>]

Unresolved == [resolved |-> FALSE, start |-> 0, end |-> -1]

\* One invocation bake(app, file, subpath, ancestors, settings) at its entry.
\* ancestors is the reference of the set passed in; received keeps the value
\* that set had when the call was made.
NewFrame(file, subpath, ancestors, h) ==
  [file |-> file, subpath |-> subpath, ancestors |-> ancestors,
   received |-> h[ancestors], pc |-> "read", text |-> <<>>,
   hiddenRegions |-> <<>>, resolvedSubpath |-> Unresolved, targets |-> <<>>,
   idx |-> 1, posOffset |-> 0, newAncestors |-> 0, before |-> <<>>,
   after |-> <<>>, prevLen |-> 0, listMatch |-> NoMatch]

Top == stack[Len(stack)]

SetTop(f) == [stack EXCEPT ![Len(stack)] = f]

\* ------------------------------------------------------------------------
\* bake(): lines 58-81, from the cache to the start of the loop
\* ------------------------------------------------------------------------

\* targets left as concatenated: links first, then embeds
UnsortedTargets(targets) == targets

\* targets.sort((a, b) => a.position.start.offset - b.position.start.offset)
\* (line 74): a stable sort, written as an insertion sort
RECURSIVE SortTargets(_)
SortTargets(targets) ==
  IF targets = <<>> THEN <<>>
  ELSE LET n    == Len(targets)
           rest == SortTargets(SubSeq(targets, 1, n - 1))
           last == targets[n]
           k    == Cardinality({i \in 1..Len(rest) :
                      rest[i].position.start.offset <= last.position.start.offset})
       IN  SubSeq(rest, 1, k) \o <<last>> \o SubSeq(rest, k + 1, Len(rest))

\* newAncestors aliasing the set that was passed in
AliasSetRef(h, ancestors) == ancestors

\* new Set(ancestors) (line 76) is a new object: its reference is fresh
NewSetRef(h, ancestors) == Len(h) + 1

\* the set left as copied, the file not added
CopiedOnly(received, file) == received

\* the members of newAncestors after newAncestors.add(file) (lines 76-77)
CopyAndAdd(received, file) == received \cup {file}

\* the heap with the object at ref holding members
HeapStore(h, ref, members) ==
  IF ref = Len(h) + 1 THEN Append(h, members) ELSE [h EXCEPT ![ref] = members]

\* lines 32-81 on the frame whose read has resolved: the frame returns its
\* text (pc "done") or enters the loop.
Prepared(f, h) ==
  LET cache    == fileCache[f.file]
      filtered == HiddenFilter(f.text, settings.bakeHidden)
      resolved == IF f.subpath # <<>> THEN resolveSubpath(cache, f.subpath)
                  ELSE Unresolved
      text     == IF resolved.resolved
                  THEN extractSubpath(filtered.text, resolved)
                  ELSE filtered.text
      links    == IF settings.bakeLinks THEN cache.links ELSE <<>>
      embeds   == IF settings.bakeEmbeds THEN cache.embeds ELSE <<>>
      targets  == links \o embeds
  IN  IF ~cache.exists
      THEN [f EXCEPT !.pc = "done", !.text = filtered.text,
                     !.hiddenRegions = filtered.hiddenRegions]
      ELSE IF targets = <<>>
      THEN [f EXCEPT !.pc = "done", !.text = text,
                     !.hiddenRegions = filtered.hiddenRegions,
                     !.resolvedSubpath = resolved]
      ELSE [f EXCEPT !.pc = "loop", !.text = text,
                     !.hiddenRegions = filtered.hiddenRegions,
                     !.resolvedSubpath = resolved,
                     !.targets = SortTargets(targets),
                     !.newAncestors = NewSetRef(h, f.ancestors),
                     !.idx = 1, !.posOffset = 0]

\* ------------------------------------------------------------------------
\* bake(): one iteration of the loop, lines 82-163
\* ------------------------------------------------------------------------

\* lines 88-95: the lengths of the regions that start before the target,
\* summed up to the first region that does not
RECURSIVE HiddenOffset(_, _, _)
HiddenOffset(regions, adjustedStart, i) ==
  IF i > Len(regions) \/ ~(regions[i].start < adjustedStart) THEN 0
  ELSE regions[i].end - regions[i].start + HiddenOffset(regions, adjustedStart, i + 1)

\* lines 100-106: the target lies within one region
InHiddenRegion(regions, target) ==
  \E i \in 1..Len(regions) :
    /\ target.position.start.offset >= regions[i].start
    /\ target.position.end.offset <= regions[i].end

\* both conditions required
isInlineBoth(listMatch, before, after) ==
  ~(listMatch.matched \/ lineStartRE(before)) /\ ~lineEndRE(after)

\* lines 126-127
isInline(listMatch, before, after) ==
  ~(listMatch.matched \/ lineStartRE(before)) \/ ~lineEndRE(after)

\* the conversion setting not consulted
SkipsFileLinkNoSetting(convertFileLinks, hasGetFullPath) == ~hasGetFullPath

\* lines 137 and 143: a file that is no document is left alone
SkipsFileLink(convertFileLinks, hasGetFullPath) ==
  ~convertFileLinks \/ ~hasGetFullPath

\* lines 144-146: `![](${protocol}${encodeURI(fullPath)})`
FileLink(linkedFile) ==
  <<"!", "[", "]", "(">>
    \o (IF platform.isWin THEN <<"f", "i", "l", "e", ":", "/", "/", "/">>
        ELSE <<"f", "i", "l", "e", ":", "/", "/">>)
    \o encodeURI(getFullPath(FilePath(linkedFile), platform.isWin))
    \o <<")">>

\* the set that was passed in consulted, not the copy that holds the file
LoopCheckReceived(f) == f.ancestors

\* line 151 consults newAncestors
LoopCheckSet(f) == f.newAncestors

\* lines 130-133: replaceTarget(replacement), and the loop moves on
replaceTarget(f, before, after, prevLen, replacement) ==
  [f EXCEPT !.text = before \o replacement \o after,
            !.posOffset = @ + Len(replacement) - prevLen,
            !.idx = @ + 1,
            !.pc = "loop"]

\* What lines 83-162 do with target, in the frame f with the sets h:
\*   skip     continue, nothing changed (lines 107, 121, 137, 143)
\*   replace  replaceTarget(replacement) (lines 146, 152)
\*   recurse  await bake(app, linkedFile, subpath, newAncestors, settings)
Outcome(f, h, target) ==
  LET off0       == IF settings.bakeHidden THEN 0
                    ELSE HiddenOffset(f.hiddenRegions, target.position.start.offset, 1)
      adjStart   == target.position.start.offset - off0
      adjEnd     == target.position.end.offset - off0
      start      == adjStart + f.posOffset
      end        == adjEnd + f.posOffset
      before     == Substring(f.text, 0, start)
      after      == SubstringFrom(f.text, end)
      parsed     == parseLinktext(target.link)
      linkedFile == getFirstLinkpathDest(parsed.path)
      listMatch  == IF settings.bakeInList THEN listLineStartRE(before) ELSE NoMatch
      base       == [kind |-> "skip", why |-> "", start |-> start, end |-> end,
                     before |-> before, after |-> after, prevLen |-> end - start,
                     linkedFile |-> linkedFile, subpath |-> parsed.subpath,
                     listMatch |-> listMatch, replacement |-> <<>>]
  IN  IF ~settings.bakeHidden /\ InHiddenRegion(f.hiddenRegions, target)
      THEN [base EXCEPT !.why = "hidden"]
      ELSE IF linkedFile = "null"
      THEN [base EXCEPT !.why = "unresolved"]
      ELSE IF Extension(linkedFile) # "md"
      THEN IF SkipsFileLink(settings.convertFileLinks, platform.hasGetFullPath)
           THEN [base EXCEPT !.why = "file"]
           ELSE [base EXCEPT !.kind = "replace", !.why = "file",
                             !.replacement = FileLink(linkedFile)]
      ELSE IF linkedFile \in h[LoopCheckSet(f)] \/ isInline(listMatch, before, after)
      THEN [base EXCEPT !.kind = "replace", !.why = "text",
                        !.replacement = IF target.displayText # <<>>
                                        THEN target.displayText ELSE parsed.path]
      ELSE [base EXCEPT !.kind = "recurse"]

\* the rejection caught and the reference left as it is
CatchAndSkip(caller) == [caller EXCEPT !.pc = "loop", !.idx = @ + 1]

\* the caller's frame when the bake it awaits rejects: bake() has no catch,
\* so the rejection is the caller's own
Propagate(caller) == [caller EXCEPT !.pc = "throw"]

\* ------------------------------------------------------------------------
\* bake(): the steps of an invocation
\* ------------------------------------------------------------------------

Running == status = "running" /\ stack # <<>>

\* line 31: await vault.cachedRead(file) resolves
Read ==
  /\ Running
  /\ Top.pc = "read"
  /\ Top.file \notin unreadable
  /\ stack' = SetTop([Top EXCEPT !.pc = "prepare", !.text = fileText[Top.file]])
  /\ readLog' = Append(readLog, Top.file)
  /\ UNCHANGED <<fileText, fileCache, unreadable, settings, platform, heap,
                 status, result, failDepth>>

\* line 31: await vault.cachedRead(file) rejects
ReadFail ==
  /\ Running
  /\ Top.pc = "read"
  /\ Top.file \in unreadable
  /\ stack' = SetTop([Top EXCEPT !.pc = "throw"])
  /\ readLog' = Append(readLog, Top.file)
  /\ failDepth' = Len(stack)
  /\ UNCHANGED <<fileText, fileCache, unreadable, settings, platform, heap,
                 status, result>>

\* lines 32-81
Prepare ==
  /\ Running
  /\ Top.pc = "prepare"
  /\ LET f == Prepared(Top, heap)
     IN  /\ stack' = SetTop(f)
         /\ heap' = IF f.pc = "loop"
                    THEN HeapStore(heap, f.newAncestors,
                                   CopyAndAdd(heap[Top.ancestors], Top.file))
                    ELSE heap
  /\ UNCHANGED <<fileText, fileCache, unreadable, settings, platform, status,
                 result, readLog, failDepth>>

AtTarget == Running /\ Top.pc = "loop" /\ Top.idx <= Len(Top.targets)

\* lines 107, 121, 137, 143: continue
Continue ==
  /\ AtTarget
  /\ Outcome(Top, heap, Top.targets[Top.idx]).kind = "skip"
  /\ stack' = SetTop([Top EXCEPT !.idx = @ + 1])
  /\ UNCHANGED <<fileText, fileCache, unreadable, settings, platform, heap,
                 status, result, readLog, failDepth>>

\* lines 146-147, 152-153: replaceTarget(...); continue
Replace ==
  /\ AtTarget
  /\ LET o == Outcome(Top, heap, Top.targets[Top.idx])
     IN  /\ o.kind = "replace"
         /\ stack' = SetTop(replaceTarget(Top, o.before, o.after, o.prevLen,
                                          o.replacement))
  /\ UNCHANGED <<fileText, fileCache, unreadable, settings, platform, heap,
                 status, result, readLog, failDepth>>

\* line 158: bake(app, linkedFile, subpath, newAncestors, settings) is called
\* and awaited; before, after, prevLen and listMatch stay in the closure
Recurse ==
  /\ AtTarget
  /\ Len(stack) < MaxDepth
  /\ LET o == Outcome(Top, heap, Top.targets[Top.idx])
     IN  /\ o.kind = "recurse"
         /\ stack' = Append(SetTop([Top EXCEPT !.pc = "await",
                                               !.before = o.before,
                                               !.after = o.after,
                                               !.prevLen = o.prevLen,
                                               !.listMatch = o.listMatch]),
                            NewFrame(o.linkedFile, o.subpath, Top.newAncestors,
                                     heap))
  /\ UNCHANGED <<fileText, fileCache, unreadable, settings, platform, heap,
                 status, result, readLog, failDepth>>

\* the invocation is at a return: line 59, 72 or 165
Returning(f) == f.pc = "done" \/ (f.pc = "loop" /\ f.idx > Len(f.targets))

\* lines 157-162: the awaited bake resolves; its text is sanitized, fitted to
\* the list item, and replaces the target in the caller
Return ==
  /\ Running
  /\ Len(stack) > 1
  /\ Returning(Top)
  /\ LET caller == stack[Len(stack) - 1]
         baked  == sanitizeBakedContent(Top.text)
         fitted == IF caller.listMatch.matched
                   THEN applyIndent(stripFirstBullet(baked), caller.listMatch.indent)
                   ELSE baked
     IN  stack' = [SubSeq(stack, 1, Len(stack) - 1) EXCEPT ![Len(stack) - 1] =
                     replaceTarget(caller, caller.before, caller.after,
                                   caller.prevLen, fitted)]
  /\ UNCHANGED <<fileText, fileCache, unreadable, settings, platform, heap,
                 status, result, readLog, failDepth>>

\* the top-level call resolves with its text
Finish ==
  /\ Running
  /\ Len(stack) = 1
  /\ Returning(Top)
  /\ status' = "returned"
  /\ result' = Top.text
  /\ stack' = <<>>
  /\ UNCHANGED <<fileText, fileCache, unreadable, settings, platform, heap,
                 readLog, failDepth>>

\* line 158: the awaited bake rejects, and so does the caller
Rethrow ==
  /\ Running
  /\ Len(stack) > 1
  /\ Top.pc = "throw"
  /\ stack' = [SubSeq(stack, 1, Len(stack) - 1) EXCEPT ![Len(stack) - 1] =
                 Propagate(stack[Len(stack) - 1])]
  /\ UNCHANGED <<fileText, fileCache, unreadable, settings, platform, heap,
                 status, result, readLog, failDepth>>

\* the top-level call rejects
Reject ==
  /\ Running
  /\ Len(stack) = 1
  /\ Top.pc = "throw"
  /\ status' = "failed"
  /\ stack' = <<>>
  /\ UNCHANGED <<fileText, fileCache, unreadable, settings, platform, heap,
                 result, readLog, failDepth>>

Next ==
  \/ Read
  \/ ReadFail
  \/ Prepare
  \/ Continue
  \/ Replace
  \/ Recurse
  \/ Return
  \/ Finish
  \/ Rethrow
  \/ Reject

\* ------------------------------------------------------------------------
\* The inputs: vaults, settings, platforms
\* ------------------------------------------------------------------------

\* the most lines the generated root document has
MaxLines == 2

\* the most markers and letters the generated raw text has
MaxMarks == 5

\* the most references a document of a generated reference graph has
MaxOut == 2

AllSettings ==
  [bakeHidden : BOOLEAN, bakeLinks : BOOLEAN, bakeEmbeds : BOOLEAN,
   bakeInList : BOOLEAN, convertFileLinks : BOOLEAN]

DefaultSettings ==
  [bakeHidden |-> FALSE, bakeLinks |-> TRUE, bakeEmbeds |-> TRUE,
   bakeInList |-> TRUE, convertFileLinks |-> TRUE]

Posix == [isWin |-> FALSE, hasGetFullPath |-> TRUE]

Platforms ==
  {Posix, [isWin |-> TRUE, hasGetFullPath |-> TRUE],
   [isWin |-> FALSE, hasGetFullPath |-> FALSE]}

SeqsUpTo(S, n) == UNION {[1..k -> S] : k \in 0..n}

\* The lines a generated root document is made of.
LinePlain == <<Lit(<<"x">>)>>

\* an embedded asset on one line and a reference alone on the next
LineLink == <<Embed(AssetPath), NL, Wiki(<<"B">>, <<>>)>>

LineEmbed == <<Embed(<<"C">>), Lit(<<" ">>)>>

LineList == <<Lit(<<"\t", "1", ".", " ">>), Wiki(<<"D">>, <<>>)>>

LineInline ==
  <<Lit(<<"a", " ">>), Wiki(<<"C">>, <<"c">>), Lit(<<" ">>), Embed(<<"D">>)>>

LineBroken == <<Wiki(<<"N">>, <<>>), Embed(AssetPath)>>

LineHidden ==
  <<Lit(HiddenStartMarker), Wiki(<<"B">>, <<>>), Lit(HiddenEndMarker),
    MdLink(<<"D">>)>>

LineOpen == <<Lit(HiddenStartMarker)>>

LineClose == <<Lit(<<"x">>), Lit(HiddenEndMarker)>>

LineHeading == <<Heading(<<"H">>)>>

LineSub == <<Wiki(<<"B", "#", "H">>, <<>>)>>

Lines ==
  {LinePlain, LineLink, LineEmbed, LineList, LineInline, LineBroken,
   LineHidden, LineOpen, LineClose, LineHeading, LineSub}

\* The documents the generated root document refers to.
BodyB ==
  JoinLines(<<<<Lit(<<"b", " ", "^", "k">>)>>, LineHeading,
              <<Wiki(<<"D">>, <<>>)>>>>)

BodyC ==
  JoinLines(<<<<Lit(<<"-", " ", "c">>)>>,
              <<Lit(HiddenStartMarker), Lit(<<"x">>), Lit(HiddenEndMarker)>>,
              <<Embed(<<"A">>)>>>>)

BodyD ==
  JoinLines(<<<<Lit(<<"*", " ", "d">>)>>,
              <<Lit(<<"d", " ">>), Wiki(<<"B">>, <<"u", "p">>)>>>>)

\* A document of a reference graph: a line of text, then one reference per
\* line to each of its successors; C is embedded, the others are linked.
DocOrder == <<"A", "B", "C", "D">>

RECURSIVE RefLines(_, _)
RefLines(succ, i) ==
  IF i > Len(DocOrder) THEN <<>>
  ELSE (IF DocOrder[i] \in succ
        THEN <<<<IF DocOrder[i] = "C" THEN Embed(<<"C">>)
                 ELSE Wiki(<<DocOrder[i]>>, <<>>)>>>>
        ELSE <<>>)
       \o RefLines(succ, i + 1)

GraphBody(d, succ) == JoinLines(<<<<Lit(<<"t">>)>>>> \o RefLines(succ, 1))

OutSets == {S \in SUBSET Docs : Cardinality(S) <= MaxOut}

Tokens == {<<"x">>, HiddenStartMarker, HiddenEndMarker}

\* The top-level call bake(app, A, subpath, new Set(), settings)
Start(bodies, parsed, st, plat, unread, subpath) ==
  /\ fileText = [d \in Docs |-> DocText(bodies[d])]
  /\ fileCache = [d \in Docs |-> IF d \in parsed THEN CacheOf(bodies[d]) ELSE NoCache]
  /\ unreadable = unread
  /\ settings = st
  /\ platform = plat
  /\ heap = <<{}>>
  /\ stack = <<NewFrame("A", subpath, 1, <<{}>>)>>
  /\ status = "running"
  /\ result = <<>>
  /\ readLog = <<>>
  /\ failDepth = 0

\* a root document of up to MaxLines lines over the fixed documents B, C, D:
\* under every settings combination, and under the default settings on every
\* platform, with an unreadable document, with a selector
InitLines ==
  \E ls \in SeqsUpTo(Lines, MaxLines), st \in AllSettings, plat \in Platforms,
     unread \in {{}, {"B"}, {"D"}}, subpath \in {<<>>, <<"#", "H">>} :
    /\ st = DefaultSettings \/ (plat = Posix /\ unread = {} /\ subpath = <<>>)
    /\ Start([d \in Docs |->
                CASE d = "A" -> JoinLines(ls) [] d = "B" -> BodyB
                  [] d = "C" -> BodyC [] OTHER -> BodyD],
             Docs, st, plat, unread, subpath)

\* every reference graph in which A, B and C have up to MaxOut references
\* and D refers back to A
InitGraph ==
  \E succ \in [{"A", "B", "C"} -> OutSets],
     st \in {DefaultSettings, [DefaultSettings EXCEPT !.bakeEmbeds = FALSE]} :
    Start([d \in Docs |-> IF d = "D" THEN GraphBody(d, {"A"})
                          ELSE GraphBody(d, succ[d])],
          Docs, st, Posix, {}, <<>>)

\* a root document obsidian has not parsed, of up to MaxMarks markers and
\* letters
InitRaw ==
  \E toks \in SeqsUpTo(Tokens, MaxMarks), bakeHidden \in BOOLEAN :
    Start([d \in Docs |-> IF d = "A" THEN <<Lit(Flatten(toks))>> ELSE <<Lit(<<"x">>)>>],
          Docs \ {"A"}, [DefaultSettings EXCEPT !.bakeHidden = bakeHidden],
          Posix, {}, <<>>)

Init == InitLines \/ InitGraph \/ InitRaw

Spec == Init /\ [][Next]_vars

\* bake() is a chain of awaits on one thread: a step that can be taken is taken
FairSpec == Spec /\ WF_vars(Next)

\* ------------------------------------------------------------------------
\* Notions the properties are stated in
\* ------------------------------------------------------------------------

\* the markup of a reference in the document as it was read
Markup(f, target) ==
  Substring(fileText[f.file], target.position.start.offset,
            target.position.end.offset)

\* the span [start, end) of the running text at which lines 84-112 place the
\* target
LiveSpan(f, target) ==
  LET off == IF settings.bakeHidden THEN 0
             ELSE HiddenOffset(f.hiddenRegions, target.position.start.offset, 1)
  IN  [start |-> target.position.start.offset - off + f.posOffset,
       end |-> target.position.end.offset - off + f.posOffset]

SpanText(f, target) ==
  Substring(f.text, LiveSpan(f, target).start, LiveSpan(f, target).end)

BeforeOf(f, target) == Substring(f.text, 0, LiveSpan(f, target).start)

AfterOf(f, target) == SubstringFrom(f.text, LiveSpan(f, target).end)

\* the file the target's path resolves to
TargetFile(target) == getFirstLinkpathDest(parseLinktext(target.link).path)

\* the display text of a reference, or its raw path when it has none
InlineText(target) ==
  IF target.displayText # <<>> THEN target.displayText
  ELSE parseLinktext(target.link).path

\* the documents of the active chain of invocations
ChainFiles == {stack[i].file : i \in 1..Len(stack)}

\* the target is not passed over as hidden
NotHidden(f, target) ==
  settings.bakeHidden \/ ~InHiddenRegion(f.hiddenRegions, target)

\* the next step replaces the target by repl, in place, without a call or a read
ReplacedBy(target, repl) ==
  /\ Len(stack') = Len(stack)
  /\ stack'[Len(stack)].text = BeforeOf(Top, target) \o repl \o AfterOf(Top, target)
  /\ stack'[Len(stack)].idx = Top.idx + 1
  /\ readLog' = readLog

\* the next step calls bake for file, with the caller's newAncestors
Called(file) ==
  /\ Len(stack') = Len(stack) + 1
  /\ stack'[Len(stack')].file = file
  /\ stack'[Len(stack')].pc = "read"
  /\ stack'[Len(stack')].ancestors = Top.newAncestors
  /\ stack'[Len(stack)].text = Top.text

\* the next step leaves the target as it is and moves to the next one
LeftAlone ==
  /\ stack' = SetTop([Top EXCEPT !.idx = @ + 1])
  /\ readLog' = readLog
  /\ heap' = heap

\* ------------------------------------------------------------------------
\* Properties
\* ------------------------------------------------------------------------

\* C2. Offset stability: in an invocation that removed no hidden region and
\* narrowed to no sub-range, whenever the loop is at a reference, the slice
\* [start + posOffset, end + posOffset) of the running text is the original
\* markup of that reference, and of every reference still to come, whatever
\* the earlier references were replaced by.
OffsetStability ==
  \A i \in 1..Len(stack) :
    LET f == stack[i]
    IN  (f.pc = "loop" /\ f.hiddenRegions = <<>> /\ ~f.resolvedSubpath.resolved)
          => \A j \in f.idx..Len(f.targets) :
               Substring(f.text,
                         f.targets[j].position.start.offset + f.posOffset,
                         f.targets[j].position.end.offset + f.posOffset)
                 = Markup(f, f.targets[j])

\* C2 witness: the top-level loop is at its third reference, after a
\* recursive bake and with a length delta accumulated.
OffsetStabilityWitness ==
  /\ Len(stack) = 1
  /\ Top.pc = "loop"
  /\ Top.idx = 3
  /\ Len(Top.targets) >= 3
  /\ Top.posOffset # 0
  /\ Top.hiddenRegions = <<>>
  /\ ~Top.resolvedSubpath.resolved
  /\ Len(readLog) >= 2

\* C4. Hidden-region filter: once an invocation has filtered its text, with
\* bakeHidden on it recorded no region and an unparsed document returns the
\* text read; with bakeHidden off each region it recorded starts at the first
\* start marker at or after the end of the region before it (the start of the
\* text for the first) and ends where the next end marker after that start
\* marker ends, so that the regions lie apart, no such pair of markers
\* follows the last region, and the text an unparsed document returns is the
\* text read without the characters of exactly those regions.
HiddenFilterExact ==
  \A i \in 1..Len(stack) :
    LET f        == stack[i]
        raw      == fileText[f.file]
        regs     == f.hiddenRegions
        after(j) == IF j = 0 THEN 0 ELSE regs[j].end
        opens(j) == ExecLiteral(raw, HiddenStartMarker, after(j))
        closes(j) ==
          ExecLiteral(raw, HiddenEndMarker, opens(j) + Len(HiddenStartMarker))
        kept     == {c \in 1..Len(raw) :
                       \A j \in 1..Len(regs) :
                         ~(regs[j].start < c /\ c <= regs[j].end)}
        rank(c)  == Cardinality({k \in kept : k <= c})
    IN  f.pc \in {"done", "loop", "await"}
          => IF settings.bakeHidden
             THEN /\ regs = <<>>
                  /\ ~fileCache[f.file].exists => f.text = raw
             ELSE /\ \A j \in 1..Len(regs) :
                       /\ opens(j - 1) # -1
                       /\ closes(j - 1) # -1
                       /\ regs[j].start = opens(j - 1)
                       /\ regs[j].end = closes(j - 1) + Len(HiddenEndMarker)
                  /\ opens(Len(regs)) = -1 \/ closes(Len(regs)) = -1
                  /\ ~fileCache[f.file].exists
                       => /\ Len(f.text) = Cardinality(kept)
                          /\ \A c \in kept : f.text[rank(c)] = raw[c]

\* C10. Offset remapping: with bakeHidden off, in an invocation narrowed to
\* no sub-range over a text whose hidden regions are well formed and not
\* nested (every start marker is closed by an end marker before the next
\* start marker, and every end marker closes a start marker), whenever the
\* loop is at a reference, the span computed for each reference still to come
\* whose original span meets no hidden region, from a start marker to the end
\* of the end marker that closes it (original offsets less the lengths of the
\* regions that start before it, plus posOffset), holds that reference's
\* original markup.
HiddenRemapExact ==
  \A i \in 1..Len(stack) :
    LET f         == stack[i]
        raw       == fileText[f.file]
        starts    == {p \in 0..Len(raw) : MatchAt(raw, HiddenStartMarker, p)}
        ends      == {p \in 0..Len(raw) : MatchAt(raw, HiddenEndMarker, p)}
        closes(p) == ExecLiteral(raw, HiddenEndMarker, p + Len(HiddenStartMarker))
        until(p)  == closes(p) + Len(HiddenEndMarker)
        wellFormed ==
          /\ \A p \in starts :
               /\ closes(p) # -1
               /\ \A q \in starts : p < q => until(p) <= q
          /\ \A e \in ends : \E p \in starts : closes(p) = e
        clear(t)  == \A p \in starts :
                       \/ t.position.end.offset <= p
                       \/ until(p) <= t.position.start.offset
    IN  (/\ f.pc = "loop"
         /\ ~settings.bakeHidden
         /\ ~f.resolvedSubpath.resolved
         /\ wellFormed)
          => \A j \in f.idx..Len(f.targets) :
               clear(f.targets[j])
                 => SpanText(f, f.targets[j]) = Markup(f, f.targets[j])

\* C3. Sub-range extraction: an invocation whose selector resolved holds,
\* when no hidden region was removed, exactly the text of the resolved range;
\* and when its loop acts on a reference, a reference inside the range is
\* replaced at a span that holds its markup, while a reference outside the
\* range leaves the narrowed text as it is and calls nothing.
SubpathExtraction ==
  [][(AtTarget /\ Top.resolvedSubpath.resolved) =>
       LET f      == Top
           t      == f.targets[f.idx]
           raw    == fileText[f.file]
           range  == f.resolvedSubpath
           rEnd   == IF range.end = -1 THEN Len(raw) ELSE range.end
           inside == /\ range.start <= t.position.start.offset
                     /\ t.position.end.offset <= rEnd
       IN  /\ (f.hiddenRegions = <<>> /\ f.idx = 1)
                => f.text = Substring(raw, range.start, rEnd)
           /\ IF inside
              THEN stack' # SetTop([f EXCEPT !.idx = @ + 1])
                     => SpanText(f, t) = Markup(f, t)
              ELSE /\ Len(stack') = Len(stack)
                   /\ stack'[Len(stack)].text = f.text]_vars

\* C5. Inline or block: when the loop acts on a reference that is not passed
\* over as hidden and that resolves to a document outside the active chain,
\* bake is called for the target exactly when the reference is not inline
\* (inline: not (bare line or list item start), or the text after it is not
\* blank up to the end of its line); an inline reference is replaced by its
\* display text, or its path when it has none, with no call and no read.
InlineOrBlock ==
  [][AtTarget =>
       LET f         == Top
           t         == f.targets[f.idx]
           file      == TargetFile(t)
           bareLine  == lineStartRE(BeforeOf(f, t))
           listStart == settings.bakeInList /\ listLineStartRE(BeforeOf(f, t)).matched
           inline    == ~(bareLine \/ listStart) \/ ~lineEndRE(AfterOf(f, t))
       IN  (NotHidden(f, t) /\ file \in Docs /\ file \notin ChainFiles)
             => IF inline THEN ReplacedBy(t, InlineText(t)) ELSE Called(file)]_vars

\* C5 witness: the top-level call awaits the bake of B for its third
\* reference, alone on its line, after two inline references were replaced
\* by shorter text.
InlineOrBlockWitness ==
  /\ Len(stack) = 2
  /\ stack[1].pc = "await"
  /\ stack[1].idx = 3
  /\ stack[1].posOffset < 0
  /\ lineStartRE(stack[1].before)
  /\ lineEndRE(stack[1].after)
  /\ stack[2].file = "B"

\* C7. Recoverable skips: when the loop acts on a reference that lies within
\* a hidden region, or whose path does not resolve, or whose target is no
\* document while convertFileLinks is off or the adapter has no getFullPath,
\* the step changes neither the running text nor posOffset, calls and reads
\* nothing, and leaves the loop at the next reference.
SkipsChangeNothing ==
  [][AtTarget =>
       LET f    == Top
           t    == f.targets[f.idx]
           file == TargetFile(t)
       IN  (\/ ~NotHidden(f, t)
            \/ file = "null"
            \/ /\ file \notin Docs
               /\ ~settings.convertFileLinks \/ ~platform.hasGetFullPath)
             => LeftAlone]_vars

\* C7 witness: the top-level loop has passed over its first reference, whose
\* path resolves to nothing, with the text and posOffset as they were, and is
\* at the next reference.
SkipsChangeNothingWitness ==
  /\ Len(stack) = 1
  /\ Top.pc = "loop"
  /\ Top.idx = 2
  /\ Len(Top.targets) >= 2
  /\ TargetFile(Top.targets[1]) = "null"
  /\ Top.posOffset = 0
  /\ Top.text = fileText["A"]

\* the documents of the chain are pairwise distinct, and none is a member of
\* the ancestor set it was given
ChainDistinct ==
  /\ \A i, j \in 1..Len(stack) : i # j => stack[i].file # stack[j].file
  /\ \A i \in 1..Len(stack) : stack[i].file \notin heap[stack[i].ancestors]

\* C9. Cycle rule: when the loop acts on a reference, not passed over as
\* hidden, whose target is a document of the active chain (the document
\* being baked or an ancestor), the reference is replaced by its display
\* text, or its path when it has none, and nothing is called or read; and
\* the documents of the chain stay pairwise distinct, none a member of the
\* ancestor set it was given.
CycleRule ==
  /\ []ChainDistinct
  /\ [][AtTarget =>
          LET f    == Top
              t    == f.targets[f.idx]
              file == TargetFile(t)
          IN  (NotHidden(f, t) /\ file \in Docs /\ file \in ChainFiles)
                => ReplacedBy(t, InlineText(t))]_vars

\* C9 witness: B, baked for A, has replaced its reference to A, alone on its
\* line, by the text A.
CycleRuleWitness ==
  /\ Len(stack) = 2
  /\ Top.file = "B"
  /\ Top.pc = "loop"
  /\ Top.idx = 2
  /\ fileText["B"] = <<"t", "\n", "[", "[", "A", "]", "]">>
  /\ Top.text = <<"t", "\n", "A">>

\* the diamond: A refers to B and C, B and C each refer to D, on lines of
\* their own
DiamondVault ==
  /\ fileText["A"] = DocText(GraphBody("A", {"B", "C"}))
  /\ fileText["B"] = DocText(GraphBody("B", {"D"}))
  /\ fileText["C"] = DocText(GraphBody("C", {"D"}))
  /\ settings = DefaultSettings

\* C8. Ancestor-set snapshot: the set an invocation received has the members
\* it had at the call; the set a nested invocation received is the caller's
\* set plus the caller's document, in an object of its own; so the set the
\* loop consults holds exactly the documents of the chain down to its
\* invocation, and in the diamond D is inlined under B and under C.
AncestorSnapshot ==
  /\ \A i \in 1..Len(stack) :
       LET f == stack[i]
       IN  /\ heap[f.ancestors] = f.received
           /\ i > 1 => /\ f.received = stack[i - 1].received \cup {stack[i - 1].file}
                       /\ f.ancestors # stack[i - 1].ancestors
           /\ i = 1 => f.received = {}
           /\ f.pc \in {"loop", "await"}
                => heap[f.newAncestors] = {stack[j].file : j \in 1..i}
  /\ (DiamondVault /\ status = "returned")
       => result = <<"t", "\n", "t", "\n", "t", "\n", "A", "\n",
                     "t", "\n", "t", "\n", "A">>

\* C8 witness: the bake of the diamond has returned, D read once under B and
\* once under C.
AncestorSnapshotWitness ==
  /\ DiamondVault
  /\ status = "returned"
  /\ readLog = <<"A", "B", "D", "C", "D">>

\* C6 as claimed: the rejected read of a document reached through a reference
\* ends that invocation only; no enclosing invocation rejects, and the
\* top-level call does not fail.
FailureAbortsBranchOnly ==
  failDepth >= 2
    => /\ status # "failed"
       /\ \A i \in 1..Len(stack) : i < failDepth => stack[i].pc # "throw"

\* C6, amended. The rejected read of a document reached through a reference
\* is caught nowhere in bake: from then on each step passes the rejection to
\* the caller, whose frame is left as it was but for the rejection, nothing
\* is read, no reference of an enclosing document is processed, and the
\* top-level call returns no text.
FailurePropagates ==
  /\ [](failDepth # 0 => status # "returned" /\ result = <<>>)
  /\ [][(failDepth # 0 /\ stack # <<>>) =>
          /\ Top.pc = "throw"
          /\ readLog' = readLog
          /\ heap' = heap
          /\ IF Len(stack) = 1 THEN stack' = <<>> /\ status' = "failed"
             ELSE /\ status' = "running"
                  /\ stack' = [SubSeq(stack, 1, Len(stack) - 1)
                                 EXCEPT ![Len(stack) - 1].pc = "throw"]]_vars

\* C6 witness: the read of a document two calls deep has rejected, and the
\* top-level invocation is rejecting with its second reference awaited and
\* later references not processed.
FailurePropagatesWitness ==
  /\ failDepth >= 2
  /\ Len(stack) = 1
  /\ Top.pc = "throw"
  /\ Top.idx >= 2
  /\ Top.idx < Len(Top.targets)
  /\ Top.posOffset # 0

\* the most targets the loop of one invocation runs over
MostTargets ==
  LET n(d) == Len(fileCache[d].links) + Len(fileCache[d].embeds)
  IN  CHOOSE m \in {n(d) : d \in Docs} : \A d \in Docs : n(d) <= m

\* the steps an invocation at the given depth of the call stack can take,
\* those of the invocations under it included
RECURSIVE Budget(_)
Budget(depth) ==
  IF depth > Cardinality(Docs) THEN 0
  ELSE 3 + MostTargets * (1 + Budget(depth + 1))

\* the steps left to the invocation at position i of the call stack
Remaining(i) ==
  LET f    == stack[i]
      left == Len(f.targets) - f.idx + 1
  IN  CASE f.pc = "read"    -> Budget(i)
        [] f.pc = "prepare" -> Budget(i) - 1
        [] f.pc = "loop"    -> 1 + left * (1 + Budget(i + 1))
        [] f.pc = "await"   -> 1 + (left - 1) * (1 + Budget(i + 1))
        [] OTHER            -> 1

RECURSIVE RemainingFrom(_)
RemainingFrom(i) ==
  IF i > Len(stack) THEN 0 ELSE Remaining(i) + RemainingFrom(i + 1)

\* the steps left to the whole bake
Variant == RemainingFrom(1)

\* the running bake has a step to take: the guards of Next
CanStep ==
  /\ stack # <<>>
  /\ \/ Top.pc \in {"read", "prepare", "done", "throw"}
     \/ /\ Top.pc = "loop"
        /\ Top.idx <= Len(Top.targets) =>
             LET o == Outcome(Top, heap, Top.targets[Top.idx])
             IN  \/ o.kind \in {"skip", "replace"}
                 \/ o.kind = "recurse" /\ Len(stack) < MaxDepth

\* C1. Termination: the top-level call, made with an empty ancestor set,
\* returns its text when every read succeeds. The call stack never holds
\* more invocations than there are documents, a running bake always has a
\* step to take, a bake whose reads succeed never rejects, and every step
\* lowers the natural number Variant, so no run goes on for ever.
Termination ==
  /\ [](/\ Len(stack) <= Cardinality(Docs)
        /\ Variant >= 0
        /\ status = "running" => CanStep
        /\ unreadable = {} => status # "failed" /\ failDepth = 0)
  /\ [][Variant' < Variant]_vars

\* C1 witness: the bake of the cycle A, B, C, A has returned, each document
\* read once and the reference of C to A replaced by the text A.
TerminationWitness ==
  /\ status = "returned"
  /\ readLog = <<"A", "B", "C">>
  /\ fileText["C"] = <<"t", "\n", "[", "[", "A", "]", "]">>
  /\ result = <<"t", "\n", "t", "\n", "t", "\n", "A">>

====
